---------------------------- MODULE Spec2Model ----------------------------
(***************************************************************************)
(* Model of the chat server of src/unnamed/part_001 (the "V3.2 grouping    *)
(* model" server): the text normalizer, the in-memory knowledge base and   *)
(* its durable copy, the command interpreter handleCommand and the         *)
(* POST /api/chat dialogue router.                                         *)
(*                                                                         *)
(* A string is a sequence of characters; a character is a one-element      *)
(* name.  ASCII characters stand for themselves, the others are named by   *)
(* their code point ("U+FF21" is FULLWIDTH LATIN CAPITAL LETTER A).        *)
(***************************************************************************)
EXTENDS Integers, Sequences, FiniteSets, Bags, TLC

VARIABLES
    developerMode,  \* part_001:10  let developerMode
    knowledgeBase,  \* part_001:20  let knowledgeBase (in memory)
    disk,           \* knowledge_base.json (durable storage)
    pending,        \* bag of the /api/chat requests suspended in await model.generateContent
    lastSentinel,   \* history: the sentinel received most recently ("none" at start)
    saveFailures    \* history: how many times in a row writeFileSync has thrown

vars == <<developerMode, knowledgeBase, disk, pending, lastSentinel, saveFailures>>

---------------------------------------------------------------------------
(* Characters and String.prototype.normalize('NFKC').toLowerCase()         *)

\* Compatibility characters of the alphabet and their NFKC images.
NFKCTable ==
    [c \in {"U+FF21", "U+FF41", "U+FF0F", "U+FF0C", "U+3000"} |->
        CASE c = "U+FF21" -> "A"    \* fullwidth A
          [] c = "U+FF41" -> "a"    \* fullwidth a
          [] c = "U+FF0F" -> "/"    \* fullwidth solidus
          [] c = "U+FF0C" -> ","    \* fullwidth comma
          [] c = "U+3000" -> " "]   \* ideographic space

\* Upper-case letters of the alphabet and their toLowerCase images.
LowerTable ==
    [c \in {"A", "B", "R", "Q", "J"} |->
        CASE c = "A" -> "a"
          [] c = "B" -> "b"
          [] c = "R" -> "r"
          [] c = "Q" -> "q"
          [] c = "J" -> "j"]

\* Canonical composition: a starter and the combining mark after it that
\* have a precomposed character.  j with U+030C (combining caron) composes
\* to U+01F0; there is no precomposed capital J with caron.
ComposeTable ==
    [p \in { <<"j", "U+030C">> } |-> "U+01F0"]

NFKC(c) == IF c \in DOMAIN NFKCTable THEN NFKCTable[c] ELSE c

toLowerCase(c) == IF c \in DOMAIN LowerTable THEN LowerTable[c] ELSE c

\* The value of req.body.message when the body carries no string message.
Undefined == <<"undefined">>

IsString(x) == x # Undefined

\* The composition step of String.prototype.normalize.
RECURSIVE composePairs(_)
composePairs(str) ==
    IF Len(str) < 2 THEN str
    ELSE IF <<str[1], str[2]>> \in DOMAIN ComposeTable
         THEN <<ComposeTable[<<str[1], str[2]>>]>> \o composePairs(SubSeq(str, 3, Len(str)))
         ELSE <<str[1]>> \o composePairs(Tail(str))

\* str.normalize('NFKC'): the compatibility mapping of each character,
\* then canonical composition.
normalizeNFKC(str) == composePairs([i \in 1..Len(str) |-> NFKC(str[i])])

\* str.toLowerCase()
lowerCased(str) == [i \in 1..Len(str) |-> toLowerCase(str[i])]

\* part_001:13-17
normalizeString(str) ==
    IF ~IsString(str) THEN <<>>
    ELSE lowerCased(normalizeNFKC(str))

---------------------------------------------------------------------------
(* String.prototype.trim, split, join, Array.prototype.includes/indexOf    *)

\* White space of /\s/ and of trim().
IsSpace(c) == c \in {" ", "U+3000"}

RECURSIVE TrimLeft(_)
TrimLeft(s) ==
    IF s # <<>> /\ IsSpace(Head(s)) THEN TrimLeft(Tail(s)) ELSE s

RECURSIVE TrimRight(_)
TrimRight(s) ==
    IF s # <<>> /\ IsSpace(s[Len(s)]) THEN TrimRight(SubSeq(s, 1, Len(s) - 1)) ELSE s

trim(s) == TrimRight(TrimLeft(s))

\* s.split(sep) for a separator that matches exactly one character (a comma
\* of either width, or a white-space character): the pieces between
\* separators, empty pieces included.
RECURSIVE SplitAt(_, _, _)
SplitAt(s, cur, isComma) ==
    IF s = <<>> THEN <<cur>>
    ELSE IF (isComma /\ Head(s) \in {",", "U+FF0C"}) \/ (~isComma /\ IsSpace(Head(s)))
         THEN <<cur>> \o SplitAt(Tail(s), <<>>, isComma)
         ELSE SplitAt(Tail(s), Append(cur, Head(s)), isComma)

\* s.split(/\s+/): a run of white space is one separator; a leading or a
\* trailing run yields an empty first or last piece; "" yields [""].
splitWhitespace(s) ==
    LET ps == SplitAt(s, <<>>, FALSE)
        n == Len(ps)
        inner == IF n <= 2 THEN ps
                 ELSE <<ps[1]>> \o SelectSeq(SubSeq(ps, 2, n - 1), LAMBDA p : p # <<>>)
                      \o <<ps[n]>>
    IN  inner

\* s.split(/[,\uFF0C]/)
splitComma(s) == SplitAt(s, <<>>, TRUE)

\* Array.prototype.join
RECURSIVE join(_, _)
join(ps, sep) ==
    IF ps = <<>> THEN <<>>
    ELSE IF Len(ps) = 1 THEN ps[1]
    ELSE ps[1] \o sep \o join(Tail(ps), sep)

\* Array.prototype.slice(from) with a 0-based index
slice(ps, from) == IF from >= Len(ps) THEN <<>> ELSE SubSeq(ps, from + 1, Len(ps))

\* Array.prototype.slice(0, to) with 0-based indices
sliceTo(ps, to) == IF to <= 0 THEN <<>> ELSE SubSeq(ps, 1, IF to > Len(ps) THEN Len(ps) ELSE to)

includes(ps, x) == \E i \in 1..Len(ps) : ps[i] = x

\* Array.prototype.indexOf, 0-based, -1 when absent
indexOf(ps, x) ==
    IF includes(ps, x) THEN (CHOOSE i \in 1..Len(ps) : ps[i] = x /\ \A j \in 1..(i - 1) : ps[j] # x) - 1
    ELSE -1

startsWith(s, c) == s # <<>> /\ s[1] = c

---------------------------------------------------------------------------
(* Inputs: the messages sent to POST /api/chat                             *)

MaxPending == 1          \* requests suspended in the model call at one time
MaxSaveFailures == 1     \* consecutive failures of writeFileSync

ACTIVATE   == <<"/", "U+547C", "U+53EB", "U+5C0F", "U+51F1">>   \* part_001:171
DEACTIVATE == <<"/", "U+5C0F", "U+51F1", "b", "y", "e">>        \* part_001:176

Words(ws) == join(ws, <<" ">>)

ADD     == <<"/", "a", "d", "d">>
DELETE  == <<"/", "d", "e", "l", "e", "t", "e">>
REPLACE == <<"/", "r", "e", "p", "l", "a", "c", "e">>
ALIAS   == <<"/", "a", "l", "i", "a", "s">>
PLUSEQ  == <<"+", "=">>

SentinelMessages ==
    { ACTIVATE,
      <<"U+FF0F", "U+547C", "U+53EB", "U+5C0F", "U+51F1">>,
      <<"/", "U+5C0F", "U+51F1", "B", "y", "e">> }

HELP == <<"/", "h", "e", "l", "p">>
LIST == <<"/", "l", "i", "s", "t">>

CommandMessages ==
    { HELP,
      LIST,
      <<"U+FF0F", "J", "U+030C">>,
      Words(<<ADD, <<"a">>>>),
      Words(<<ADD, <<"A">>, <<"R">>>>),
      Words(<<ADD, <<"b">>, <<"q">>>>),
      DELETE,
      Words(<<DELETE, <<"a">>, <<"b">>>>),
      Words(<<DELETE, <<"a">>>>),
      Words(<<DELETE, <<"b">>>>),
      Words(<<DELETE, <<"c">>>>),
      Words(<<REPLACE, <<"a">>>>),
      REPLACE \o <<" ">> \o <<"U+FF41">> \o <<"U+3000", " ">> \o <<"Q">>,
      Words(<<REPLACE, <<"c">>, <<"R">>>>),
      Words(<<ALIAS, <<"a">>>>),
      Words(<<ALIAS, <<"a">>, PLUSEQ>>),
      Words(<<ALIAS, <<"a">>, PLUSEQ, <<"b", ",", "c">>>>),
      Words(<<ALIAS, <<"b">>, PLUSEQ, <<"c", "U+FF0C", "c", ",">>, <<"B">>>>),
      Words(<<ALIAS, <<"c">>, PLUSEQ, <<"a">>>>),
      Words(<<ALIAS, PLUSEQ, <<"c">>>>) }

PlainMessages == { <<"A">>, <<"x", "a">> }

Messages == SentinelMessages \cup CommandMessages \cup PlainMessages

\* Messages whose keywords are not plain single words: a synonym of two
\* words, a keyword that starts with '/', and the messages around them.
EdgeMessages ==
    { ACTIVATE,
      DEACTIVATE,
      LIST,
      Words(<<ADD, <<"A">>, <<"R">>>>),
      Words(<<ADD, LIST, <<"q">>>>),
      Words(<<ALIAS, <<"a">>, PLUSEQ, <<"b", " ", "c">>>>),
      Words(<<DELETE, <<"a">>>>),
      Words(<<DELETE, <<"b", " ", "c">>>>),
      Words(<<DELETE, LIST>>),
      <<"b", " ", "c">> }

ModelTexts == { "T" }

\* normalizeString and the parse of handleCommand (part_001:88-89) for the
\* messages above, computed once; other strings are computed on demand.
NormalizedMessages == [m \in Messages |-> normalizeString(m)]
PartsOfMessages == [m \in Messages |-> splitWhitespace(trim(normalizeString(m)))]

normalized(str) ==
    IF str \in DOMAIN NormalizedMessages THEN NormalizedMessages[str] ELSE normalizeString(str)

partsOf(rawMessage) ==
    IF rawMessage \in DOMAIN PartsOfMessages THEN PartsOfMessages[rawMessage]
    ELSE splitWhitespace(trim(normalizeString(rawMessage)))

---------------------------------------------------------------------------
(* The knowledge base: in memory and on disk                               *)

\* A prompt is an opaque text; Missing marks a field the JSON document lacks.
Missing == "<missing>"
DefaultDeveloperPrompt == "You are a helpful AI assistant."   \* part_001:28

Group(syns, resp) == [synonyms |-> syns, response |-> resp]

Document(hasGroups, groups, sys, dev) ==
    [has_keyword_groups |-> hasGroups, keyword_groups |-> groups,
     system_prompt |-> sys, developer_prompt |-> dev]

\* The groups of the document are not taken over.
loadKnowledgeBase_mut_dropsGroups(doc) ==
    Document(TRUE, <<>>, doc.system_prompt,
             IF doc.developer_prompt \in {Missing, ""} THEN DefaultDeveloperPrompt
             ELSE doc.developer_prompt)

\* part_001:23-34 (the document is parsable; an unreadable one ends the process)
loadKnowledgeBase(doc) ==
    Document(TRUE,
             IF doc.has_keyword_groups THEN doc.keyword_groups ELSE <<>>,
             doc.system_prompt,
             IF doc.developer_prompt \in {Missing, ""} THEN DefaultDeveloperPrompt
             ELSE doc.developer_prompt)

\* writeFileSync never replaces the file.
saveKnowledgeBase_mut_neverWrites(kb, old, ok) == old

\* part_001:36-45: the new content of the durable storage; writeFileSync
\* either replaces the whole file (ok) or throws and the file is kept.
saveKnowledgeBase(kb, old, ok) == IF ok THEN kb ELSE old

\* The scan gives up after the first group.
findKeyword_mut_firstGroupOnly(keyword, kb) ==
    LET n == normalizeString(keyword)
        gs == kb.keyword_groups
    IN  IF Len(gs) > 0 /\ includes(gs[1].synonyms, n)
        THEN [groupIndex |-> 1, keywordIndex |-> indexOf(gs[1].synonyms, n) + 1]
        ELSE [groupIndex |-> 0, keywordIndex |-> 0]

\* part_001:77-85; indices are 1-based here, groupIndex = 0 stands for null.
findKeyword(keyword, kb) ==
    LET n == normalizeString(keyword)
        gs == kb.keyword_groups
        hits == {i \in 1..Len(gs) : includes(gs[i].synonyms, n)}
    IN  IF hits = {} THEN [groupIndex |-> 0, keywordIndex |-> 0]
        ELSE LET i == CHOOSE x \in hits : \A y \in hits : x <= y
             IN  [groupIndex |-> i, keywordIndex |-> indexOf(gs[i].synonyms, n) + 1]

\* splice(index) without a count: everything from the index on goes.
removeAt_mut_truncates(ps, i) == SubSeq(ps, 1, i - 1)

\* Array.prototype.splice(index, 1) with a 1-based index
removeAt(ps, i) == SubSeq(ps, 1, i - 1) \o SubSeq(ps, i + 1, Len(ps))

---------------------------------------------------------------------------
(* Replies.  A reply is the template the code fills in (t) with the texts  *)
(* interpolated into it: a, b, h lists of strings, g a list of groups.     *)

Reply(t, a, b, g) == [t |-> t, a |-> a, b |-> b, g |-> g, h |-> <<>>]

COMMAND_LIST        == Reply("COMMAND_LIST", <<>>, <<>>, <<>>)        \* part_001:68-75
SaveFailed          == Reply("save_failed", <<>>, <<>>, <<>>)         \* part_001:105,116,118,128
AddUsage            == Reply("add_usage", <<>>, <<>>, <<>>)           \* part_001:98
AddExists(k)        == Reply("add_exists", <<k>>, <<>>, <<>>)         \* part_001:102
AddCreated(k)       == Reply("add_created", <<k>>, <<>>, <<>>)        \* part_001:105
DeleteUsage         == Reply("delete_usage", <<>>, <<>>, <<>>)        \* part_001:109
DeleteMissing(k)    == Reply("delete_missing", <<k>>, <<>>, <<>>)     \* part_001:112
DeletedWithGroup(k) == Reply("deleted_with_group", <<k>>, <<>>, <<>>) \* part_001:116
Deleted(k)          == Reply("deleted", <<k>>, <<>>, <<>>)            \* part_001:118
ReplaceUsage        == Reply("replace_usage", <<>>, <<>>, <<>>)       \* part_001:122
ReplaceMissing(k)   == Reply("replace_missing", <<k>>, <<>>, <<>>)    \* part_001:126
Replaced(syns)      == Reply("replaced", syns, <<>>, <<>>)            \* part_001:128
AliasUsage          == Reply("alias_usage", <<>>, <<>>, <<>>)         \* part_001:133
AliasMissing(k)     == Reply("alias_missing", <<k>>, <<>>, <<>>)      \* part_001:137
AliasEmpty          == Reply("alias_empty", <<>>, <<>>, <<>>)         \* part_001:139
\* part_001:145-148: the "added ... to group <head>" sentence when added is
\* not empty, then the "skipped ..." sentence when skipped is not empty.
AliasResult(added, skipped, head) ==
    [Reply("alias_result", added, skipped, <<>>) EXCEPT
        !.h = IF added = <<>> THEN <<>> ELSE <<head>>]
AliasNothing        == Reply("alias_nothing", <<>>, <<>>, <<>>)       \* part_001:148
ListReply(groups)   == Reply("list", <<>>, <<>>, groups)              \* part_001:152-156
UnknownCommand(c)   == Reply("unknown_command", <<c>>, <<>>, <<>>)    \* part_001:160
Activated           == Reply("activated", <<>>, <<>>, <<>>)           \* part_001:174
Deactivated         == Reply("deactivated", <<>>, <<>>, <<>>)         \* part_001:179
PermissionDenied    == Reply("permission_denied", <<>>, <<>>, <<>>)   \* part_001:187
GroupResponse(r)    == Reply("group_response", <<r>>, <<>>, <<>>)     \* part_001:194
ModelText(txt)      == Reply("model_text", <<txt>>, <<>>, <<>>)       \* part_001:202
GenericError        == Reply("generic_error", <<>>, <<>>, <<>>)       \* part_001:206
Awaiting            == Reply("awaiting_model", <<>>, <<>>, <<>>)      \* part_001:201, no reply yet

---------------------------------------------------------------------------
(* The command interpreter, part_001:87-162.  Each command yields the      *)
(* knowledge base it leaves in memory, its reply and whether it called     *)
(* saveKnowledgeBase ("none", or the outcome "ok" / "failed").             *)

Outcome(kb, reply, save) == [kb |-> kb, reply |-> reply, save |-> save]

SaveResult(ok) == IF ok THEN "ok" ELSE "failed"

WithGroups(kb, groups) == [kb EXCEPT !.keyword_groups = groups]

\* The new group is put in front of the others (unshift for push).
cmdAdd_mut_unshift(parts, args, kb, ok) ==
    IF Len(args) < 2 THEN Outcome(kb, AddUsage, "none")
    ELSE LET keyword == args[1]
             response == join(slice(parts, 2), <<" ">>)
         IN  IF findKeyword(keyword, kb).groupIndex # 0
             THEN Outcome(kb, AddExists(keyword), "none")
             ELSE Outcome(WithGroups(kb, <<Group(<<keyword>>, response)>> \o kb.keyword_groups),
                          IF ok THEN AddCreated(keyword) ELSE SaveFailed,
                          SaveResult(ok))

\* part_001:97-106
cmdAdd(parts, args, kb, ok) ==
    IF Len(args) < 2 THEN Outcome(kb, AddUsage, "none")
    ELSE LET keyword == args[1]
             response == join(slice(parts, 2), <<" ">>)
         IN  IF findKeyword(keyword, kb).groupIndex # 0
             THEN Outcome(kb, AddExists(keyword), "none")
             ELSE Outcome(WithGroups(kb, Append(kb.keyword_groups, Group(<<keyword>>, response))),
                          IF ok THEN AddCreated(keyword) ELSE SaveFailed,
                          SaveResult(ok))

\* The group that lost its last synonym is kept.
cmdDelete_mut_keepsEmptyGroup(parts, args, kb, ok) ==
    IF Len(args) # 1 THEN Outcome(kb, DeleteUsage, "none")
    ELSE LET keyword == args[1]
             found == findKeyword(keyword, kb)
             gi == found.groupIndex
             gs == kb.keyword_groups
             syns == removeAt(gs[gi].synonyms, found.keywordIndex)
         IN  IF gi = 0 THEN Outcome(kb, DeleteMissing(keyword), "none")
             ELSE Outcome(WithGroups(kb, [gs EXCEPT ![gi].synonyms = syns]),
                          IF ok THEN Deleted(keyword) ELSE SaveFailed,
                          SaveResult(ok))

\* The argument count is tested with "< 1" for "!== 1".
cmdDelete_mut_argCount(parts, args, kb, ok) ==
    IF Len(args) < 1 THEN Outcome(kb, DeleteUsage, "none")
    ELSE LET keyword == args[1]
             found == findKeyword(keyword, kb)
             gi == found.groupIndex
             gs == kb.keyword_groups
             syns == removeAt(gs[gi].synonyms, found.keywordIndex)
         IN  IF gi = 0 THEN Outcome(kb, DeleteMissing(keyword), "none")
             ELSE IF Len(syns) = 0
                  THEN Outcome(WithGroups(kb, removeAt(gs, gi)),
                               IF ok THEN DeletedWithGroup(keyword) ELSE SaveFailed,
                               SaveResult(ok))
                  ELSE Outcome(WithGroups(kb, [gs EXCEPT ![gi].synonyms = syns]),
                               IF ok THEN Deleted(keyword) ELSE SaveFailed,
                               SaveResult(ok))

\* part_001:108-119
cmdDelete(parts, args, kb, ok) ==
    IF Len(args) # 1 THEN Outcome(kb, DeleteUsage, "none")
    ELSE LET keyword == args[1]
             found == findKeyword(keyword, kb)
             gi == found.groupIndex
             gs == kb.keyword_groups
             syns == removeAt(gs[gi].synonyms, found.keywordIndex)
         IN  IF gi = 0 THEN Outcome(kb, DeleteMissing(keyword), "none")
             ELSE IF Len(syns) = 0
                  THEN Outcome(WithGroups(kb, removeAt(gs, gi)),
                               IF ok THEN DeletedWithGroup(keyword) ELSE SaveFailed,
                               SaveResult(ok))
                  ELSE Outcome(WithGroups(kb, [gs EXCEPT ![gi].synonyms = syns]),
                               IF ok THEN Deleted(keyword) ELSE SaveFailed,
                               SaveResult(ok))

\* The new response is given to every group.
cmdReplace_mut_allGroups(parts, args, kb, ok) ==
    IF Len(args) < 2 THEN Outcome(kb, ReplaceUsage, "none")
    ELSE LET keyword == args[1]
             response == join(slice(parts, 2), <<" ">>)
             found == findKeyword(keyword, kb)
             gi == found.groupIndex
             gs == kb.keyword_groups
         IN  IF gi = 0 THEN Outcome(kb, ReplaceMissing(keyword), "none")
             ELSE Outcome(WithGroups(kb, [i \in 1..Len(gs) |->
                                             [gs[i] EXCEPT !.response = response]]),
                          IF ok THEN Replaced(gs[gi].synonyms) ELSE SaveFailed,
                          SaveResult(ok))

\* part_001:121-129
cmdReplace(parts, args, kb, ok) ==
    IF Len(args) < 2 THEN Outcome(kb, ReplaceUsage, "none")
    ELSE LET keyword == args[1]
             response == join(slice(parts, 2), <<" ">>)
             found == findKeyword(keyword, kb)
             gi == found.groupIndex
             gs == kb.keyword_groups
         IN  IF gi = 0 THEN Outcome(kb, ReplaceMissing(keyword), "none")
             ELSE Outcome(WithGroups(kb, [gs EXCEPT ![gi].response = response]),
                          IF ok THEN Replaced(gs[gi].synonyms) ELSE SaveFailed,
                          SaveResult(ok))

\* part_001:138
parseAliases(aliasesToAddRaw) ==
    LET pieces == splitComma(aliasesToAddRaw)
        mapped == [i \in 1..Len(pieces) |-> normalizeString(trim(pieces[i]))]
    IN  SelectSeq(mapped, LAMBDA a : a # <<>>)

\* An alias is looked up in the target group only.
RECURSIVE aliasLoop_mut_targetOnly(_, _, _)
aliasLoop_mut_targetOnly(aliases, gi, acc) ==
    IF aliases = <<>> THEN acc
    ELSE LET alias == Head(aliases)
             gs == acc.kb.keyword_groups
         IN  IF includes(gs[gi].synonyms, alias)
             THEN aliasLoop_mut_targetOnly(Tail(aliases), gi,
                            [acc EXCEPT !.skipped = Append(acc.skipped, alias)])
             ELSE aliasLoop_mut_targetOnly(Tail(aliases), gi,
                            [kb |-> WithGroups(acc.kb,
                                       [gs EXCEPT ![gi].synonyms = Append(gs[gi].synonyms, alias)]),
                             added |-> Append(acc.added, alias),
                             skipped |-> acc.skipped])

\* part_001:140-144: the loop over aliasesToAdd; acc holds the knowledge
\* base, added and skipped as they stand before the next alias.
RECURSIVE aliasLoop(_, _, _)
aliasLoop(aliases, gi, acc) ==
    IF aliases = <<>> THEN acc
    ELSE LET alias == Head(aliases)
             gs == acc.kb.keyword_groups
         IN  IF findKeyword(alias, acc.kb).groupIndex # 0
             THEN aliasLoop(Tail(aliases), gi,
                            [acc EXCEPT !.skipped = Append(acc.skipped, alias)])
             ELSE aliasLoop(Tail(aliases), gi,
                            [kb |-> WithGroups(acc.kb,
                                       [gs EXCEPT ![gi].synonyms = Append(gs[gi].synonyms, alias)]),
                             added |-> Append(acc.added, alias),
                             skipped |-> acc.skipped])

\* part_001:145-148
aliasOutcome(done, gi, ok) ==
    Outcome(done.kb,
            IF done.added = <<>> /\ done.skipped = <<>> THEN AliasNothing
            ELSE AliasResult(done.added, done.skipped,
                             done.kb.keyword_groups[gi].synonyms[1]),
            IF Len(done.added) > 0 THEN SaveResult(ok) ELSE "none")

\* part_001:136-144
aliasFound(existingKeyword, found, aliasesToAdd, kb, ok) ==
    IF found.groupIndex = 0 THEN Outcome(kb, AliasMissing(existingKeyword), "none")
    ELSE IF Len(aliasesToAdd) = 0 THEN Outcome(kb, AliasEmpty, "none")
    ELSE aliasOutcome(aliasLoop(aliasesToAdd, found.groupIndex,
                                [kb |-> kb, added |-> <<>>, skipped |-> <<>>]),
                      found.groupIndex, ok)

\* part_001:134-138
aliasParsed(existingKeyword, aliasesToAddRaw, kb, ok) ==
    aliasFound(existingKeyword, findKeyword(existingKeyword, kb),
               parseAliases(aliasesToAddRaw), kb, ok)

\* part_001:131-149
cmdAlias(parts, args, kb, ok) ==
    LET addOperatorIndex == indexOf(args, PLUSEQ)
    IN  IF addOperatorIndex < 0 THEN Outcome(kb, AliasUsage, "none")
        ELSE aliasParsed(join(sliceTo(args, addOperatorIndex), <<" ">>),
                         join(slice(args, addOperatorIndex + 1), <<" ">>), kb, ok)

\* part_001:90-161: the switch over parts[0]
dispatch(parts, command, args, kb, ok) ==
    CASE command = HELP -> Outcome(kb, COMMAND_LIST, "none")
      [] command = ADD -> cmdAdd(parts, args, kb, ok)
      [] command = DELETE -> cmdDelete(parts, args, kb, ok)
      [] command = REPLACE -> cmdReplace(parts, args, kb, ok)
      [] command = ALIAS -> cmdAlias(parts, args, kb, ok)
      [] command = LIST -> Outcome(kb, ListReply(kb.keyword_groups), "none")
      [] OTHER -> Outcome(kb, UnknownCommand(command), "none")

\* part_001:90-91
handleParts(parts, kb, ok) == dispatch(parts, parts[1], slice(parts, 1), kb, ok)

\* part_001:87-162
handleCommand(rawMessage, kb, ok) == handleParts(partsOf(rawMessage), kb, ok)

---------------------------------------------------------------------------
(* The dialogue router, POST /api/chat, part_001:165-208                   *)

\* A group matches when one of its synonyms occurs in the message.
findGroup_mut_substring(normalizedUserMessage, kb) ==
    LET gs == kb.keyword_groups
        n == normalizedUserMessage
        occurs(syn) == \E k \in 1..Len(n) : \E l \in k..Len(n) : SubSeq(n, k, l) = syn
        hits == {i \in 1..Len(gs) : \E j \in 1..Len(gs[i].synonyms) : occurs(gs[i].synonyms[j])}
    IN  IF hits = {} THEN 0 ELSE CHOOSE x \in hits : \A y \in hits : x <= y

\* part_001:190: keyword_groups.find(g => g.synonyms.includes(msg)), 0 for undefined
findGroup(normalizedUserMessage, kb) ==
    LET gs == kb.keyword_groups
        hits == {i \in 1..Len(gs) : includes(gs[i].synonyms, normalizedUserMessage)}
    IN  IF hits = {} THEN 0 ELSE CHOOSE x \in hits : \A y \in hits : x <= y

\* What the synchronous part of the handler (up to the await of line 201)
\* does with one message: the new mode and knowledge base, the reply sent
\* (Awaiting when the handler suspends in the model call), the save outcome
\* and the prompt handed to the model.
Routed(mode, kb, reply, save, prompt) ==
    [mode |-> mode, kb |-> kb, reply |-> reply, save |-> save, prompt |-> prompt]

NoPrompt == "<no model call>"

\* part_001:184-185
commandReply(mode, out) == Routed(mode, out.kb, out.reply, out.save, NoPrompt)

mayRunCommands_mut_always(mode) == TRUE

\* The system prompt is used in both modes.
selectPrompt_mut_alwaysSystem(mode, kb) == kb.system_prompt

\* part_001:199
selectPrompt(mode, kb) == IF mode THEN kb.developer_prompt ELSE kb.system_prompt

\* part_001:200: the prompt text and the raw message that make up fullPrompt
fullPrompt(prompt, rawUserMessage) == [msg |-> rawUserMessage, prompt |-> prompt]

\* What the model call of line 201 does: it returns a text, or it throws.
Returned(txt) == [ok |-> TRUE, text |-> txt]
Thrown == [ok |-> FALSE, text |-> ""]

\* The continuation reads the mode again and answers by it.
resume_mut_readsMode(req, result, mode, kb) ==
    Routed(mode, kb,
           IF result.ok /\ (mode <=> req.prompt = kb.developer_prompt)
           THEN ModelText(result.text) ELSE GenericError,
           "none", NoPrompt)

\* A failed model call is made again.
resume_mut_retries(req, result, mode, kb) ==
    IF result.ok
    THEN Routed(mode, kb, ModelText(result.text), "none", NoPrompt)
    ELSE Routed(mode, kb, Awaiting, "none", req.prompt)

\* part_001:202-207: the rest of the handler once the model call is over:
\* the reply with the model's text, or the catch block's reply.
resume(req, result, mode, kb) ==
    Routed(mode, kb, IF result.ok THEN ModelText(result.text) ELSE GenericError,
           "none", NoPrompt)

\* part_001:183: if (developerMode)
mayRunCommands(mode) == mode

\* The test for '/' comes before the tests for the sentinels.
routeNormalized_mut_slashFirst(rawUserMessage, normalizedUserMessage, mode, kb, ok) ==
    IF startsWith(normalizedUserMessage, "/") /\ ~mode
    THEN Routed(mode, kb, PermissionDenied, "none", NoPrompt)
    ELSE IF normalizedUserMessage = ACTIVATE
    THEN Routed(TRUE, kb, Activated, "none", NoPrompt)
    ELSE IF normalizedUserMessage = DEACTIVATE
    THEN Routed(FALSE, kb, Deactivated, "none", NoPrompt)
    ELSE IF startsWith(normalizedUserMessage, "/")
    THEN commandReply(mode, handleCommand(rawUserMessage, kb, ok))
    ELSE LET gi == findGroup(normalizedUserMessage, kb)
         IN  IF gi # 0
             THEN Routed(mode, kb, GroupResponse(kb.keyword_groups[gi].response), "none", NoPrompt)
             ELSE Routed(mode, kb, Awaiting, "none", selectPrompt(mode, kb))

\* part_001:171-201
routeNormalized(rawUserMessage, normalizedUserMessage, mode, kb, ok) ==
    IF normalizedUserMessage = ACTIVATE
    THEN Routed(TRUE, kb, Activated, "none", NoPrompt)
    ELSE IF normalizedUserMessage = DEACTIVATE
    THEN Routed(FALSE, kb, Deactivated, "none", NoPrompt)
    ELSE IF startsWith(normalizedUserMessage, "/")
    THEN IF mayRunCommands(mode)
         THEN commandReply(mode, handleCommand(rawUserMessage, kb, ok))
         ELSE Routed(mode, kb, PermissionDenied, "none", NoPrompt)
    ELSE LET gi == findGroup(normalizedUserMessage, kb)
         IN  IF gi # 0
             THEN Routed(mode, kb, GroupResponse(kb.keyword_groups[gi].response), "none", NoPrompt)
             ELSE Routed(mode, kb, Awaiting, "none", selectPrompt(mode, kb))

\* part_001:167-168
route(rawUserMessage, mode, kb, ok) ==
    routeNormalized(rawUserMessage, normalized(rawUserMessage), mode, kb, ok)

\* Contents of knowledge_base.json at process start.
InitialDocuments ==
    { Document(FALSE, <<>>, "SYS", Missing),
      Document(FALSE, <<>>, "SYS", DefaultDeveloperPrompt),
      Document(TRUE, <<>>, "SYS", Missing),
      Document(TRUE, << Group(<< <<"a">> >>, <<"r">>) >>, "SYS", DefaultDeveloperPrompt) }

---------------------------------------------------------------------------
(* The state machine                                                       *)

Init ==
    /\ developerMode = FALSE
    /\ disk \in InitialDocuments
    /\ knowledgeBase = loadKnowledgeBase(disk)
    /\ pending = EmptyBag
    /\ lastSentinel = "none"
    /\ saveFailures = 0

\* part_001:105-147: the durable storage after a handler whose save outcome is save
diskAfter(r, old) ==
    IF r.save = "none" THEN old ELSE saveKnowledgeBase(r.kb, old, r.save = "ok")

\* part_001:201: the handler that reaches the model call suspends in it
pendingAfter(msg, r, old) ==
    IF r.prompt = NoPrompt THEN old
    ELSE old (+) SetToBag({fullPrompt(r.prompt, msg)})

\* What writeFileSync may do in this state: succeed, or throw unless it has
\* thrown MaxSaveFailures times in a row.
SaveOutcomes == IF saveFailures < MaxSaveFailures THEN BOOLEAN ELSE {TRUE}

\* The effect of the synchronous part of one request (r as route gives it).
Handle(msg, n, r) ==
    /\ r.prompt # NoPrompt => BagCardinality(pending) < MaxPending
    /\ developerMode' = r.mode
    /\ knowledgeBase' = r.kb
    /\ disk' = diskAfter(r, disk)
    /\ pending' = pendingAfter(msg, r, pending)
    /\ lastSentinel' = IF n = ACTIVATE THEN "on"
                       ELSE IF n = DEACTIVATE THEN "off" ELSE lastSentinel
    /\ saveFailures' = IF r.save = "failed" THEN saveFailures + 1
                       ELSE IF r.save = "ok" THEN 0 ELSE saveFailures

\* A request arrives and its handler runs up to its reply or to the await;
\* ok is whether writeFileSync succeeds should the handler call it.
ChatRequest ==
    \E msg \in Messages, ok \in SaveOutcomes :
        Handle(msg, normalized(msg), route(msg, developerMode, knowledgeBase, ok))

\* The effect of the part of a request that runs after its model call (r as
\* resume gives it).
Resume(req, r) ==
    /\ developerMode' = r.mode
    /\ knowledgeBase' = r.kb
    /\ disk' = diskAfter(r, disk)
    /\ pending' = pendingAfter(req.msg, r, pending (-) SetToBag({req}))
    /\ UNCHANGED <<lastSentinel, saveFailures>>

\* part_001:201-202: the model call of a suspended request returns its text,
\* which is sent as the reply ModelText(txt).
ModelReturns ==
    \E req \in BagToSet(pending), txt \in ModelTexts :
        Resume(req, resume(req, Returned(txt), developerMode, knowledgeBase))

\* part_001:204-207: the model call of a suspended request throws; the
\* reply is GenericError with status 500.
ModelFails ==
    \E req \in BagToSet(pending) :
        Resume(req, resume(req, Thrown, developerMode, knowledgeBase))

Next == ChatRequest \/ ModelReturns \/ ModelFails

Spec == Init /\ [][Next]_vars

\* The same program, sent the messages of EdgeMessages.
EdgeChatRequest ==
    \E msg \in EdgeMessages, ok \in SaveOutcomes :
        Handle(msg, normalized(msg), route(msg, developerMode, knowledgeBase, ok))

NextEdge == EdgeChatRequest \/ ModelReturns \/ ModelFails

SpecEdge == Init /\ [][NextEdge]_vars

---------------------------------------------------------------------------
(* Properties.  A property about what a request does is stated over the    *)
(* outcome route gives, in every reachable state, for every message the    *)
(* property is about and every outcome of the write to durable storage.    *)

Groups == knowledgeBase.keyword_groups

\* The positions <<group, synonym>> of the synonyms of a list of groups.
Positions(gs) ==
    UNION { { <<i, j>> : j \in 1..Len(gs[i].synonyms) } : i \in 1..Len(gs) }

NoDuplicateSynonyms(gs) ==
    \A p, q \in Positions(gs) :
        p # q => gs[p[1]].synonyms[p[2]] # gs[q[1]].synonyms[q[2]]

Owned(gs, syn) == \E p \in Positions(gs) : gs[p[1]].synonyms[p[2]] = syn

OutcomeOf(msg, ok) == route(msg, developerMode, knowledgeBase, ok)

IsCommandMessage(msg) ==
    /\ startsWith(normalized(msg), "/")
    /\ normalized(msg) \notin {ACTIVATE, DEACTIVATE}

\* The command name and the arguments handleCommand reads off a message.
CommandOf(msg) == partsOf(msg)[1]
ArgsOf(msg) == slice(partsOf(msg), 1)

C2Case(r, success) ==
    /\ r.kb # knowledgeBase => r.save # "none"
    /\ r.save = "failed" => r.reply # success.reply

\* C2: every command that changes the in-memory knowledge base calls save,
\* and whenever that save fails the reply differs from the reply the same
\* command gives when the save succeeds.
C2_FailedSaveIsReported ==
    developerMode =>
        \A msg \in CommandMessages : \A ok \in SaveOutcomes :
            C2Case(OutcomeOf(msg, ok), OutcomeOf(msg, TRUE))

\* The response text as typed: the tokens of the original message from the
\* third onward, joined by single spaces.
TypedResponse(msg) == join(slice(splitWhitespace(trim(msg)), 2), <<" ">>)

\* The groups of new that are not the group at the same place of old.
ChangedGroups(old, new) ==
    { i \in 1..Len(new) : i > Len(old) \/ new[i] # old[i] }

C3Case(msg, r) ==
    \A i \in ChangedGroups(Groups, r.kb.keyword_groups) :
        r.kb.keyword_groups[i].response = TypedResponse(msg)

\* C3: the response /add and /replace store is the text as typed (casing
\* and character width of the original message).
C3_StoredResponseIsAsTyped ==
    developerMode =>
        \A msg \in CommandMessages : \A ok \in SaveOutcomes :
            CommandOf(msg) \in {ADD, REPLACE} => C3Case(msg, OutcomeOf(msg, ok))

C4Case(msg, r) ==
    /\ r.reply = PermissionDenied
    /\ r.kb = knowledgeBase
    /\ r.mode = developerMode
    /\ r.save = "none"
    /\ r.prompt = NoPrompt
    /\ diskAfter(r, disk) = disk
    /\ pendingAfter(msg, r, pending) = pending

\* C4: in normal mode a message that starts with '/' after normalization
\* and is no sentinel gets the permission-denied reply and does nothing:
\* knowledge base, durable storage and mode stay, no save, no model call.
C4_NormalModeCommandsDenied ==
    ~developerMode =>
        \A msg \in Messages : \A ok \in SaveOutcomes :
            IsCommandMessage(msg) => C4Case(msg, OutcomeOf(msg, ok))

\* C4 witness: normal mode, entered by the deactivation sentinel, with a
\* knowledge base on which a command would act were the mode developer.
C4_Witness ==
    /\ ~developerMode
    /\ lastSentinel = "off"
    /\ \E msg \in Messages :
          /\ IsCommandMessage(msg)
          /\ route(msg, TRUE, knowledgeBase, TRUE).kb # knowledgeBase
          /\ OutcomeOf(msg, TRUE).reply = PermissionDenied

C5Case(msg, n, r) ==
    /\ n = ACTIVATE => r.mode = TRUE /\ r.reply = Activated
    /\ n = DEACTIVATE => r.mode = FALSE /\ r.reply = Deactivated
    /\ n \notin {ACTIVATE, DEACTIVATE} => r.mode = developerMode

\* C5: the mode is developer exactly when the sentinel received last was
\* the activation sentinel (false at start); a sentinel sets the mode from
\* either mode, no other message changes it, and /help gets the command
\* list in developer mode and the permission-denied reply in normal mode.
C5_ModeFollowsLastSentinel ==
    /\ developerMode = (lastSentinel = "on")
    /\ \A msg \in Messages : \A ok \in SaveOutcomes :
          C5Case(msg, normalized(msg), OutcomeOf(msg, ok))
    /\ OutcomeOf(HELP, TRUE).reply =
          IF lastSentinel = "on" THEN COMMAND_LIST ELSE PermissionDenied

\* C5 witness: the mode was activated, commands ran, and it was
\* deactivated again: /help is now denied.
C5_Witness ==
    /\ lastSentinel = "off"
    /\ ~developerMode
    /\ Len(Groups) >= 2
    /\ OutcomeOf(HELP, TRUE).reply = PermissionDenied

\* The group that owns syn (0 when none does) and its number of synonyms.
OwnerOf(gs, syn) ==
    IF Owned(gs, syn)
    THEN (CHOOSE p \in Positions(gs) : gs[p[1]].synonyms[p[2]] = syn)[1]
    ELSE 0

\* The number of groups /list renders.
ListCount(kb) == Len(handleCommand(LIST, kb, TRUE).reply.g)

C6Case(owner, r) ==
    IF Len(Groups[owner].synonyms) = 1
    THEN /\ Len(r.kb.keyword_groups) = Len(Groups) - 1
         /\ ListCount(r.kb) = ListCount(knowledgeBase) - 1
    ELSE /\ Len(r.kb.keyword_groups) = Len(Groups)
         /\ ListCount(r.kb) = ListCount(knowledgeBase)

\* C6: no reachable state holds a group with zero synonyms; a /delete of
\* the last synonym of a group removes the group, so /list renders one
\* group fewer, and a /delete from a larger group keeps the group count.
C6_GroupLifecycle ==
    /\ \A i \in 1..Len(Groups) : Len(Groups[i].synonyms) > 0
    /\ developerMode =>
          \A msg \in CommandMessages : \A ok \in SaveOutcomes :
              ( /\ CommandOf(msg) = DELETE
                /\ Len(ArgsOf(msg)) = 1
                /\ Owned(Groups, ArgsOf(msg)[1]) )
              => C6Case(OwnerOf(Groups, ArgsOf(msg)[1]), OutcomeOf(msg, ok))

\* C6 witness: a /delete of a last synonym has acted and its save failed,
\* so durable storage still holds the group that memory lost; memory holds
\* a larger group from which /delete would only take a synonym.
C6_Witness ==
    /\ developerMode
    /\ saveFailures = 1
    /\ Len(disk.keyword_groups) = Len(Groups) + 1
    /\ \E i \in 1..Len(Groups) : Len(Groups[i].synonyms) >= 2

\* The groups of which n is a synonym.
ExactOwners(n) ==
    { i \in 1..Len(Groups) : \E j \in 1..Len(Groups[i].synonyms) : Groups[i].synonyms[j] = n }

C7Case(owners, r) ==
    IF owners # {}
    THEN /\ r.reply = GroupResponse(Groups[CHOOSE i \in owners : \A k \in owners : i <= k].response)
         /\ r.prompt = NoPrompt
    ELSE /\ r.reply = Awaiting
         /\ r.prompt # NoPrompt

\* C7: a message that is no sentinel and does not start with '/' is
\* answered with a group's stored response exactly when its normalized form
\* equals one of that group's synonyms (the first such group); otherwise,
\* also when it only contains a synonym, it goes to the external model.
C7_ExactMatchOnly ==
    \A msg \in Messages : \A ok \in SaveOutcomes :
        ( /\ ~startsWith(normalized(msg), "/")
          /\ normalized(msg) \notin {ACTIVATE, DEACTIVATE} )
        => C7Case(ExactOwners(normalized(msg)), OutcomeOf(msg, ok))

\* C7 witness: a group owns a; the message A is answered with its
\* response, and the message "x a", which contains a, is suspended in the
\* model call.
C7_Witness ==
    /\ Owned(Groups, <<"a">>)
    /\ OutcomeOf(<<"A">>, TRUE).reply.t = "group_response"
    /\ \E req \in BagToSet(pending) : req.msg = <<"x", "a">>

\* The elements of seq at the positions in S, in order, from position i on.
RECURSIVE PickFrom(_, _, _)
PickFrom(seq, S, i) ==
    IF i > Len(seq) THEN <<>>
    ELSE (IF i \in S THEN <<seq[i]>> ELSE <<>>) \o PickFrom(seq, S, i + 1)

\* The keyword and the listed synonyms of an /alias message, read off the
\* normalized text: the words before "+=", and the comma-separated items
\* after it, trimmed, the empty ones dropped.
AliasKeyword(msg) == join(sliceTo(ArgsOf(msg), indexOf(ArgsOf(msg), PLUSEQ)), <<" ">>)
AliasListed(msg) ==
    parseAliases(join(slice(ArgsOf(msg), indexOf(ArgsOf(msg), PLUSEQ) + 1), <<" ">>))

\* The positions of the listed synonyms that are added: owned by no group
\* and not listed earlier in the same command.
AddedPositions(listed) ==
    { i \in 1..Len(listed) :
        /\ ~Owned(Groups, listed[i])
        /\ \A j \in 1..(i - 1) : listed[j] # listed[i] }

IsAliasCase(msg) ==
    /\ CommandOf(msg) = ALIAS
    /\ includes(ArgsOf(msg), PLUSEQ)
    /\ Owned(Groups, AliasKeyword(msg))
    /\ AliasListed(msg) # <<>>

C8Case(G, added, skipped, r) ==
    /\ r.kb.keyword_groups =
          [Groups EXCEPT ![G].synonyms = Groups[G].synonyms \o added]
    /\ r.reply = AliasResult(added, skipped, Groups[G].synonyms[1])
    /\ r.reply \notin {AliasUsage, AliasEmpty, SaveFailed, GenericError}

C8Listed(G, listed, r) ==
    C8Case(G, PickFrom(listed, AddedPositions(listed), 1),
           PickFrom(listed, (1..Len(listed)) \ AddedPositions(listed), 1), r)

\* C8: /alias k += s1,...,sn with k found in group G and a non-empty list
\* appends to G, in order, each listed synonym that no group owns and that
\* was not listed earlier, reports every other one as skipped, leaves G's
\* response and all other groups as they were, and does not fail as a whole.
C8_AliasPerSynonym ==
    developerMode =>
        \A msg \in CommandMessages : \A ok \in SaveOutcomes :
            IsAliasCase(msg) =>
                C8Listed(OwnerOf(Groups, AliasKeyword(msg)), AliasListed(msg),
                         OutcomeOf(msg, ok))

\* C8 witness: /alias has acted (a group holds a and b), and the command
\* /alias a += b,c now adds c and skips b.
C8_Witness ==
    /\ developerMode
    /\ \E i \in 1..Len(Groups) :
          /\ includes(Groups[i].synonyms, <<"a">>)
          /\ includes(Groups[i].synonyms, <<"b">>)
    /\ ~Owned(Groups, <<"c">>)
    /\ OutcomeOf(Words(<<ALIAS, <<"a">>, PLUSEQ, <<"b", ",", "c">>>>), TRUE).reply.a = << <<"c">> >>
    /\ OutcomeOf(Words(<<ALIAS, <<"a">>, PLUSEQ, <<"b", ",", "c">>>>), TRUE).reply.b = << <<"b">> >>

\* The words of a message as typed, and the keyword of /add k r.
TypedWords(msg) == splitWhitespace(trim(msg))

IsAddCase(msg) ==
    /\ CommandOf(msg) = ADD
    /\ Len(TypedWords(msg)) >= 3

C9Duplicate(k, r) ==
    /\ r.reply = AddExists(k)
    /\ r.kb = knowledgeBase
    /\ diskAfter(r, disk) = disk

C9Created(k, r) ==
    /\ Len(r.kb.keyword_groups) = Len(Groups) + 1
    /\ SubSeq(r.kb.keyword_groups, 1, Len(Groups)) = Groups
    /\ r.kb.keyword_groups[Len(Groups) + 1].synonyms = <<k>>

C9AsStated(k, r) ==
    IF Owned(Groups, k) THEN C9Duplicate(k, r)
    ELSE C9Created(k, r) /\ r.reply = AddCreated(k)

C9Amended(k, r, ok) ==
    IF Owned(Groups, k) THEN C9Duplicate(k, r)
    ELSE /\ C9Created(k, r)
         /\ r.reply = IF ok THEN AddCreated(k) ELSE SaveFailed
         /\ diskAfter(r, disk) = IF ok THEN r.kb ELSE disk

IsUserError(name, args) ==
    \/ name = ADD /\ Len(args) < 2
    \/ name = DELETE /\ (Len(args) # 1 \/ ~Owned(Groups, args[1]))
    \/ name = REPLACE /\ (Len(args) < 2 \/ ~Owned(Groups, args[1]))
    \/ name = ALIAS /\ ~includes(args, PLUSEQ)
    \/ name \notin {HELP, ADD, DELETE, REPLACE, ALIAS, LIST}

IsAliasError(msg) ==
    /\ CommandOf(msg) = ALIAS
    /\ includes(ArgsOf(msg), PLUSEQ)
    /\ (~Owned(Groups, AliasKeyword(msg)) \/ AliasListed(msg) = <<>>)

IsReadOnly(name) == name \in {HELP, LIST}

CommandTexts ==
    { "COMMAND_LIST", "add_usage", "delete_usage", "delete_missing", "replace_usage",
      "replace_missing", "alias_usage", "alias_missing", "alias_empty",
      "list", "unknown_command" }

C10Case(r) ==
    /\ r.kb = knowledgeBase
    /\ diskAfter(r, disk) = disk
    /\ r.mode = developerMode
    /\ r.save = "none"
    /\ r.prompt = NoPrompt
    /\ r.reply.t \in CommandTexts

\* C10: in developer mode a command that is a user error (wrong argument
\* count, missing "+=", keyword not found, empty synonym list, unknown
\* command) and the read-only commands /help and /list leave the knowledge
\* base, the storage and the mode unchanged, do not save, and return a
\* reply string.
C10_ErrorsAndReadsChangeNothing ==
    developerMode =>
        \A msg \in CommandMessages : \A ok \in SaveOutcomes :
            ( \/ IsUserError(CommandOf(msg), ArgsOf(msg))
              \/ IsAliasError(msg)
              \/ IsReadOnly(CommandOf(msg)) )
            => C10Case(OutcomeOf(msg, ok))

\* C10 witness: developer mode with memory ahead of storage, where
\* /delete a b is a usage error although a is owned, /replace c R names a
\* keyword that is not found, and /list has groups to render.
C10_Witness ==
    /\ developerMode
    /\ disk # knowledgeBase
    /\ Owned(Groups, <<"a">>)
    /\ OutcomeOf(Words(<<DELETE, <<"a">>, <<"b">>>>), TRUE).reply = DeleteUsage
    /\ OutcomeOf(Words(<<REPLACE, <<"c">>, <<"R">>>>), TRUE).reply.t = "replace_missing"
    /\ OutcomeOf(LIST, TRUE).reply.t = "list"

C11Case(r, success) ==
    /\ r.save = "ok" => diskAfter(r, disk) = r.kb
    /\ r.save = "failed" =>
          /\ r.kb = success.kb
          /\ diskAfter(r, disk) = disk

C11Diverges(r) == r.save = "failed" => diskAfter(r, disk) # r.kb

C11Amended(r, success) ==
    /\ C11Case(r, success)
    /\ (r.save = "failed" /\ disk = knowledgeBase /\ r.kb # knowledgeBase)
          => diskAfter(r, disk) # r.kb

\* Memory and storage agree, or no save has replaced the file loaded at start.
InSync ==
    \/ disk = knowledgeBase
    \/ disk \in InitialDocuments /\ knowledgeBase = loadKnowledgeBase(disk)

\* C11 as stated: a failed save keeps the mutation in memory and the old
\* content in storage, and the two then differ; right after a successful
\* save storage equals the whole in-memory knowledge base.
C11_FailedSaveAlwaysDiverges ==
    /\ saveFailures = 0 => InSync
    /\ \A msg \in CommandMessages : \A ok \in SaveOutcomes :
          /\ C11Case(OutcomeOf(msg, ok), OutcomeOf(msg, TRUE))
          /\ C11Diverges(OutcomeOf(msg, ok))

\* C11, amended: a failed save keeps the mutation in memory (the knowledge
\* base is the one the command leaves when its save succeeds) and the old
\* content in storage; the two then differ whenever they agreed before and
\* the command changed the knowledge base; right after a successful save,
\* and until the next failed one, storage equals the whole in-memory
\* knowledge base, mutations whose own save had failed included.
C11_SaveDivergenceAndResync ==
    /\ saveFailures = 0 => InSync
    /\ \A msg \in CommandMessages : \A ok \in SaveOutcomes :
          C11Amended(OutcomeOf(msg, ok), OutcomeOf(msg, TRUE))

\* C11 witness: a save has failed and memory is ahead of storage by a
\* group; a command whose save succeeds now writes that group too.
C11_Witness ==
    /\ developerMode
    /\ saveFailures = 1
    /\ Len(Groups) > Len(disk.keyword_groups)
    /\ \E msg \in CommandMessages :
          /\ OutcomeOf(msg, TRUE).save = "ok"
          /\ diskAfter(OutcomeOf(msg, TRUE), disk) = OutcomeOf(msg, TRUE).kb
          /\ Len(OutcomeOf(msg, TRUE).kb.keyword_groups) > Len(disk.keyword_groups) + 1

C12Case(r) ==
    /\ r.reply = GenericError
    /\ r.prompt = NoPrompt
    /\ r.kb = knowledgeBase
    /\ r.mode = developerMode
    /\ r.save = "none"
    /\ diskAfter(r, disk) = disk

C12Routed(r) ==
    r.prompt # NoPrompt =>
        /\ r.kb = knowledgeBase
        /\ r.mode = developerMode
        /\ r.save = "none"
        /\ diskAfter(r, disk) = disk

\* C12: when the model call of a fallback request throws, the request ends
\* with the fixed generic error reply, the call is not made again, and the
\* request, before and after the call, leaves the knowledge base, the
\* durable storage and the mode as they are.
C12_ModelFailureIsGeneric ==
    /\ \A req \in BagToSet(pending) :
          C12Case(resume(req, Thrown, developerMode, knowledgeBase))
    /\ \A msg \in Messages : \A ok \in SaveOutcomes :
          ~startsWith(normalized(msg), "/") => C12Routed(OutcomeOf(msg, ok))

\* C12 witness: a model call is in flight in developer mode while memory
\* holds groups and is ahead of storage.
C12_Witness ==
    /\ pending # EmptyBag
    /\ developerMode
    /\ Len(Groups) >= 1
    /\ disk # knowledgeBase

C13Case(msg, n, r) ==
    /\ (r.prompt # NoPrompt) <=>
          ( /\ n \notin {ACTIVATE, DEACTIVATE}
            /\ ~startsWith(n, "/")
            /\ ExactOwners(n) = {} )
    /\ r.prompt # NoPrompt =>
          /\ r.prompt = IF developerMode THEN knowledgeBase.developer_prompt
                        ELSE knowledgeBase.system_prompt
          /\ pendingAfter(msg, r, EmptyBag) =
                SetToBag({[msg |-> msg, prompt |-> r.prompt]})

\* C13: the model is called exactly for the messages that are no sentinel,
\* do not start with '/' and match no group; its prompt is developer_prompt
\* with the raw message when the mode is developer as the request is
\* routed, system_prompt with the raw message otherwise; the text the model
\* returns is the reply.
C13_PromptSelection ==
    /\ \A msg \in Messages : \A ok \in SaveOutcomes :
          C13Case(msg, normalized(msg), OutcomeOf(msg, ok))
    /\ \A req \in BagToSet(pending) : \A txt \in ModelTexts :
          resume(req, Returned(txt), developerMode, knowledgeBase).reply = ModelText(txt)

\* C13 witness: the message A, routed in developer mode when no group owned
\* a, is still in the model call with developer_prompt and its raw text,
\* although the mode is normal by now.
C13_Witness ==
    /\ ~developerMode
    /\ \E req \in BagToSet(pending) :
          /\ req.prompt = knowledgeBase.developer_prompt
          /\ req.msg = <<"A">>

\* The durable resource after load and then save, no command in between.
SavedAfterLoad(doc) == saveKnowledgeBase(loadKnowledgeBase(doc), doc, TRUE)

\* The document holds keyword_groups and a developer_prompt that is not empty.
IsComplete(doc) ==
    /\ doc.has_keyword_groups
    /\ doc.developer_prompt \notin {Missing, ""}

ResolvedReply(syn, kb) ==
    routeNormalized(syn, normalizeString(syn), developerMode, kb, TRUE).reply

IsReplaceCase(msg) ==
    /\ CommandOf(msg) = REPLACE
    /\ Len(ArgsOf(msg)) >= 2
    /\ Owned(Groups, ArgsOf(msg)[1])

C15Case(G, response, new, r) ==
    /\ Len(new) = Len(Groups)
    /\ \A i \in 1..Len(Groups) : new[i].synonyms = Groups[i].synonyms
    /\ \A i \in 1..Len(Groups) : i # G => new[i].response = Groups[i].response
    /\ new[G].response = response
    /\ \A j \in 1..Len(Groups[G].synonyms) :
          /\ OwnerOf(new, Groups[G].synonyms[j]) = G
          /\ ~startsWith(Groups[G].synonyms[j], "/") =>
                ResolvedReply(Groups[G].synonyms[j], r.kb) = GroupResponse(response)

\* C15: /replace k r with k found in group G overwrites only G's response:
\* afterwards every synonym of G resolves to the new response (the one the
\* command stored, which is the normalized form of the typed text), the
\* synonym lists of all groups are unchanged, the responses of the other
\* groups are unchanged, and so are the number and order of the groups.
C15_ReplaceOnlyResponse ==
    developerMode =>
        \A msg \in CommandMessages : \A ok \in SaveOutcomes :
            IsReplaceCase(msg) =>
                C15Case(OwnerOf(Groups, ArgsOf(msg)[1]),
                        normalizeString(TypedResponse(msg)),
                        OutcomeOf(msg, ok).kb.keyword_groups,
                        OutcomeOf(msg, ok))

\* C15 witness: /replace c R has acted on a group of two synonyms or more,
\* next to another group with another response, and /replace with Q
\* applies to a group.
C15_Witness ==
    /\ developerMode
    /\ \E i, k \in 1..Len(Groups) :
          /\ includes(Groups[i].synonyms, <<"c">>)
          /\ Len(Groups[i].synonyms) >= 2
          /\ Groups[i].response = <<"r">>
          /\ Groups[k].response = <<"q">>
    /\ \E msg \in CommandMessages :
          /\ IsReplaceCase(msg)
          /\ OutcomeOf(msg, TRUE).kb # knowledgeBase

\* The groups gs with the synonym k taken out, a group that held nothing
\* else dropped.
Without(gs, k) ==
    LET Other(syn) == syn # k
        Stripped == [i \in 1..Len(gs) |->
                        [gs[i] EXCEPT !.synonyms = SelectSeq(gs[i].synonyms, Other)]]
        NotEmpty(g) == g.synonyms # <<>>
    IN  SelectSeq(Stripped, NotEmpty)

IsDeleteCase(msg) ==
    /\ CommandOf(msg) = DELETE
    /\ Len(ArgsOf(msg)) = 1
    /\ Owned(Groups, ArgsOf(msg)[1])

C16Case(k, G, new, r) ==
    /\ new = Without(Groups, k)
    /\ findKeyword(k, r.kb).groupIndex = 0
    /\ ~Owned(new, k)
    /\ \A j \in 1..Len(Groups[G].synonyms) :
          ( /\ Groups[G].synonyms[j] # k
            /\ ~startsWith(Groups[G].synonyms[j], "/") )
          => ResolvedReply(Groups[G].synonyms[j], r.kb) = GroupResponse(Groups[G].response)

\* C16: a /delete k that finds k removes exactly the synonym normalize(k)
\* from the group that owns it: afterwards findKeyword(k) finds nothing,
\* the other synonyms of the group keep their order and resolve to the same
\* response, and every other group keeps its synonyms, its response and
\* its place relative to the others.
C16_DeleteOnlyTheSynonym ==
    developerMode =>
        \A msg \in CommandMessages : \A ok \in SaveOutcomes :
            IsDeleteCase(msg) =>
                C16Case(ArgsOf(msg)[1], OwnerOf(Groups, ArgsOf(msg)[1]),
                        OutcomeOf(msg, ok).kb.keyword_groups, OutcomeOf(msg, ok))

\* C16 witness: /delete has taken c out of a group that keeps a and b, in
\* this order; another group stands next to it, and /delete a applies.
C16_Witness ==
    /\ developerMode
    /\ Len(Groups) >= 2
    /\ \E i \in 1..Len(Groups) : Groups[i].synonyms = << <<"a">>, <<"b">> >>
    /\ IsDeleteCase(Words(<<DELETE, <<"a">>>>))

\* The synonyms the knowledge base holds.
StoredSynonyms == { Groups[p[1]].synonyms[p[2]] : p \in Positions(Groups) }

\* C17: normalize is idempotent and total: normalizing the normalized form
\* of a message gives it back, a message that is no string normalizes to
\* the empty string, and stored synonyms, normalized as incoming messages
\* are, are left as they are by normalize.
C17_NormalizeIdempotentAndTotal ==
    /\ normalizeString(Undefined) = <<>>
    /\ \A msg \in Messages : normalizeString(normalizeString(msg)) = normalizeString(msg)
    /\ \A syn \in StoredSynonyms : normalizeString(syn) = syn

\* The outcome of /delete syn, sent in developer mode.
DeleteOutcome(syn) == handleCommand(Words(<<DELETE, syn>>), knowledgeBase, TRUE)

\* C18: every stored synonym is a non-empty string without whitespace, and
\* so /delete <synonym> removes it.
C18_SynonymsAreSingleTokens ==
    \A syn \in StoredSynonyms :
        /\ syn # <<>>
        /\ \A i \in 1..Len(syn) : ~IsSpace(syn[i])
        /\ ~Owned(DeleteOutcome(syn).kb.keyword_groups, syn)

\* In either mode the router answers the message k with the response of
\* the group of kb that owns normalize(k), and calls neither the command
\* interpreter nor the model.
C19Case(k, kb) ==
    \A mode \in BOOLEAN :
        routeNormalized(k, normalizeString(k), mode, kb, TRUE) =
            Routed(mode, kb,
                   GroupResponse(kb.keyword_groups[
                       OwnerOf(kb.keyword_groups, normalizeString(k))].response),
                   "none", NoPrompt)

\* C19: once /add k r has stored k, a message equal to k is answered, in
\* either mode, with the response stored for k's group; every synonym the
\* knowledge base holds is matched by the router.
C19_AddedKeywordIsMatched ==
    /\ developerMode =>
          \A msg \in EdgeMessages : \A ok \in SaveOutcomes :
              ( /\ IsAddCase(msg)
                /\ ~Owned(Groups, normalizeString(TypedWords(msg)[2])) )
              => C19Case(TypedWords(msg)[2], OutcomeOf(msg, ok).kb)
    /\ \A syn \in StoredSynonyms : C19Case(syn, knowledgeBase)

\* The results a model call may have.
ModelResults == { Returned(txt) : txt \in ModelTexts } \cup { Thrown }

\* What the continuation of a suspended request does does not depend on
\* the mode or the knowledge base it resumes in, and it writes neither.
C20Resumed(req) ==
    \A result \in ModelResults : \A mode \in BOOLEAN :
        \A kb \in { knowledgeBase, loadKnowledgeBase(disk) } :
            /\ resume(req, result, mode, kb).reply =
                  resume(req, result, developerMode, knowledgeBase).reply
            /\ resume(req, result, mode, kb).kb = kb
            /\ resume(req, result, mode, kb).mode = mode
            /\ resume(req, result, mode, kb).save = "none"

\* Two mutating commands handled one after the other, both saves
\* succeeding: first and second are their outcomes, the second routed in
\* the state the first leaves.
C20BothApplied(first, second) ==
    /\ Owned(second.kb.keyword_groups, <<"a">>)
    /\ Owned(second.kb.keyword_groups, <<"b">>)
    /\ Len(second.kb.keyword_groups) = Len(Groups) + 2
    /\ diskAfter(second, diskAfter(first, disk)) = second.kb

C20Pair(m1, m2) ==
    C20BothApplied(OutcomeOf(m1, TRUE),
                   route(m2, OutcomeOf(m1, TRUE).mode, OutcomeOf(m1, TRUE).kb, TRUE))

\* A step that changes the requests in flight writes nothing shared, and a
\* step that writes something shared leaves the requests in flight alone.
C20Step ==
    /\ pending' # pending => UNCHANGED <<developerMode, knowledgeBase, disk>>
    /\ ~UNCHANGED <<developerMode, knowledgeBase, disk>> => pending' = pending

\* C20: under every interleaving of requests, a request reads and writes
\* the knowledge base and the mode in one step before its model call and
\* neither reads nor writes them after it: a step either handles a whole
\* command, its save included, or only starts or ends a model call; no
\* state shows a half-applied command (a group left without synonyms, or
\* storage behind memory after a successful save); two commands whose
\* saves succeed are both in memory and in storage whatever their order;
\* and the reply of a request in flight does not depend on the mode or the
\* knowledge base at the time its model call ends.
C20_RequestsAreAtomic ==
    /\ [](\A req \in BagToSet(pending) : C20Resumed(req))
    /\ []((developerMode /\ ~Owned(Groups, <<"a">>) /\ ~Owned(Groups, <<"b">>)) =>
            /\ C20Pair(Words(<<ADD, <<"A">>, <<"R">>>>), Words(<<ADD, <<"b">>, <<"q">>>>))
            /\ C20Pair(Words(<<ADD, <<"b">>, <<"q">>>>), Words(<<ADD, <<"A">>, <<"R">>>>)))
    /\ [](\A i \in 1..Len(Groups) : Groups[i].synonyms # <<>>)
    /\ [](saveFailures = 0 => InSync)
    /\ [][C20Step]_vars

\* C20 witness: a request routed in normal mode is still in its model call
\* after the mode was switched on and commands were handled: two added
\* groups are in memory and in storage.
C20_Witness ==
    /\ developerMode
    /\ \E req \in BagToSet(pending) : req.prompt = knowledgeBase.system_prompt
    /\ Owned(Groups, <<"a">>)
    /\ Owned(Groups, <<"b">>)
    /\ Len(Groups) >= 2
    /\ disk = knowledgeBase

=============================================================================
